---- MODULE Spec2Model ----
(***************************************************************************)
(* Emora voice authentication: the profile store of VoiceAuthenticator     *)
(* (voice_auth.py) and the /voice/* request handlers of app.py, run by a   *)
(* threaded server (SocketIO async_mode='threading'), so that handlers     *)
(* interleave at their accesses to the profile files.                      *)
(*                                                                         *)
(* Representation.  A phrase is a sequence of one-character strings.  A    *)
(* feature mapping is a function from feature names to integers: descriptor *)
(* values are kept on an integer grid of model units (sign and zero-ness   *)
(* are those of the program, magnitudes are compressed so that dot         *)
(* products stay inside 32-bit integers; a unit is a quarter of 1e-8).  A similarity score is    *)
(* kept in hundredths, rounded down, so 0.50 is 50 and 1.0 is 100.         *)
(***************************************************************************)
EXTENDS Integers, Sequences, FiniteSets, TLC

(***************************************************************************)
(* Bounds of the model.                                                    *)
(***************************************************************************)
\* calls that arrive in one behaviour
MaxOps == 3

\* tokens in a phrase given to the normalizer
MaxTokens == 3

(***************************************************************************)
(* Passphrase normalizer: app.py normalize_phrase.                         *)
(***************************************************************************)
UpperToLower ==
  [c \in {"A","B","C","D","E","F","G","H","I","J","K","L","M","N","O","P","Q",
          "R","S","T","U","V","W","X","Y","Z"} |->
     CASE c = "A" -> "a" [] c = "B" -> "b" [] c = "C" -> "c" [] c = "D" -> "d"
       [] c = "E" -> "e" [] c = "F" -> "f" [] c = "G" -> "g" [] c = "H" -> "h"
       [] c = "I" -> "i" [] c = "J" -> "j" [] c = "K" -> "k" [] c = "L" -> "l"
       [] c = "M" -> "m" [] c = "N" -> "n" [] c = "O" -> "o" [] c = "P" -> "p"
       [] c = "Q" -> "q" [] c = "R" -> "r" [] c = "S" -> "s" [] c = "T" -> "t"
       [] c = "U" -> "u" [] c = "V" -> "v" [] c = "W" -> "w" [] c = "X" -> "x"
       [] c = "Y" -> "y" [] c = "Z" -> "z"]

\* str.lower()
Lower(s) ==
  [i \in 1..Len(s) |-> IF s[i] \in DOMAIN UpperToLower THEN UpperToLower[s[i]] ELSE s[i]]

\* str.replace(old, new): every non-overlapping occurrence, left to right
RECURSIVE Replace(_, _, _)
Replace(s, old, new) ==
  IF Len(s) < Len(old) THEN s
  ELSE IF SubSeq(s, 1, Len(old)) = old
       THEN new \o Replace(SubSeq(s, Len(old) + 1, Len(s)), old, new)
       ELSE <<s[1]>> \o Replace(Tail(s), old, new)

\* the characters re.sub(r"[^a-z0-9 ]", "", phrase) keeps
KeptChars ==
  {"a","b","c","d","e","f","g","h","i","j","k","l","m","n","o","p","q","r","s",
   "t","u","v","w","x","y","z","0","1","2","3","4","5","6","7","8","9"," "}

RemovePunctuation(s) == SelectSeq(s, LAMBDA c : c \in KeptChars)

\* str.strip(): after RemovePunctuation the only whitespace left is the space
RECURSIVE LStrip(_)
LStrip(s) == IF s # <<>> /\ s[1] = " " THEN LStrip(Tail(s)) ELSE s

RECURSIVE RStrip(_)
RStrip(s) ==
  IF s # <<>> /\ s[Len(s)] = " " THEN RStrip(SubSeq(s, 1, Len(s) - 1)) ELSE s

Strip(s) == RStrip(LStrip(s))

\* a faulty Contractions, for contrast: the suffix rules come before the words
ContractionsSuffixesFirst ==
  << << <<"n","'","t">>,                 <<" ","n","o","t">> >>,
     << <<"'","r","e">>,                 <<" ","a","r","e">> >>,
     << <<"'","s">>,                     <<" ","i","s">> >>,
     << <<"'","d">>,                     <<" ","w","o","u","l","d">> >>,
     << <<"'","l","l">>,                 <<" ","w","i","l","l">> >>,
     << <<"'","v","e">>,                 <<" ","h","a","v","e">> >>,
     << <<"'","m">>,                     <<" ","a","m">> >>,
     << <<"i","'","m">>,                 <<"i"," ","a","m">> >>,
     << <<"y","o","u","'","r","e">>,     <<"y","o","u"," ","a","r","e">> >>,
     << <<"h","e","'","s">>,             <<"h","e"," ","i","s">> >>,
     << <<"s","h","e","'","s">>,         <<"s","h","e"," ","i","s">> >>,
     << <<"i","t","'","s">>,             <<"i","t"," ","i","s">> >>,
     << <<"w","e","'","r","e">>,         <<"w","e"," ","a","r","e">> >>,
     << <<"t","h","e","y","'","r","e">>, <<"t","h","e","y"," ","a","r","e">> >>,
     << <<"c","a","n","'","t">>,         <<"c","a","n","n","o","t">> >>,
     << <<"w","o","n","'","t">>,         <<"w","i","l","l"," ","n","o","t">> >> >>

\* the replacement table of normalize_phrase, in the order of the code
Contractions ==
  << << <<"i","'","m">>,                 <<"i"," ","a","m">> >>,
     << <<"y","o","u","'","r","e">>,     <<"y","o","u"," ","a","r","e">> >>,
     << <<"h","e","'","s">>,             <<"h","e"," ","i","s">> >>,
     << <<"s","h","e","'","s">>,         <<"s","h","e"," ","i","s">> >>,
     << <<"i","t","'","s">>,             <<"i","t"," ","i","s">> >>,
     << <<"w","e","'","r","e">>,         <<"w","e"," ","a","r","e">> >>,
     << <<"t","h","e","y","'","r","e">>, <<"t","h","e","y"," ","a","r","e">> >>,
     << <<"c","a","n","'","t">>,         <<"c","a","n","n","o","t">> >>,
     << <<"w","o","n","'","t">>,         <<"w","i","l","l"," ","n","o","t">> >>,
     << <<"n","'","t">>,                 <<" ","n","o","t">> >>,
     << <<"'","r","e">>,                 <<" ","a","r","e">> >>,
     << <<"'","s">>,                     <<" ","i","s">> >>,
     << <<"'","d">>,                     <<" ","w","o","u","l","d">> >>,
     << <<"'","l","l">>,                 <<" ","w","i","l","l">> >>,
     << <<"'","v","e">>,                 <<" ","h","a","v","e">> >>,
     << <<"'","m">>,                     <<" ","a","m">> >> >>

RECURSIVE ExpandFrom(_, _)
ExpandFrom(s, k) ==
  IF k > Len(Contractions) THEN s
  ELSE ExpandFrom(Replace(s, Contractions[k][1], Contractions[k][2]), k + 1)

\* a faulty normalize_phrase, for contrast: it trims before it removes punctuation
normalize_phrase_trim_first(phrase) ==
  RemovePunctuation(Strip(ExpandFrom(Lower(phrase), 1)))

normalize_phrase(phrase) == Strip(RemovePunctuation(ExpandFrom(Lower(phrase), 1)))

(***************************************************************************)
(* Feature extractor: voice_auth.py extract_voice_features.                *)
(***************************************************************************)
PitchNames == {"pitch_mean", "pitch_std", "pitch_range"}

FeatureNames ==
  PitchNames \cup
  {"spectral_centroid_mean", "spectral_centroid_std", "mfcc_mean", "mfcc_std",
   "energy_mean", "energy_std", "zcr_mean", "zcr_std", "rolloff_mean", "rolloff_std"}

\* the descriptor groups computed outside any inner try block
UnguardedGroups == {"centroid", "mfcc", "energy", "zcr", "rolloff"}

\* the features each descriptor group assigns
GroupFeatures ==
  [pitch |-> PitchNames,
   centroid |-> {"spectral_centroid_mean", "spectral_centroid_std"},
   mfcc |-> {"mfcc_mean", "mfcc_std"},
   energy |-> {"energy_mean", "energy_std"},
   zcr |-> {"zcr_mean", "zcr_std"},
   rolloff |-> {"rolloff_mean", "rolloff_std"}]

EmptyFeatures == [k \in {} |-> 0]

\* the mapping returned by the outer except branch (model units)
FallbackFeatures ==
  [pitch_mean |-> 16, pitch_std |-> 8, pitch_range |-> 8,
   spectral_centroid_mean |-> 16, spectral_centroid_std |-> 8,
   mfcc_mean |-> -8, mfcc_std |-> 8, energy_mean |-> 8, energy_std |-> 8,
   zcr_mean |-> 8, zcr_std |-> 8, rolloff_mean |-> 16, rolloff_std |-> 8]

\* descriptor values of the two speakers of the model (model units)
Voice1 ==
  [pitch_mean |-> 16, pitch_std |-> 8, pitch_range |-> 8,
   spectral_centroid_mean |-> 8, spectral_centroid_std |-> 0,
   mfcc_mean |-> -8, mfcc_std |-> 8, energy_mean |-> 8, energy_std |-> 0,
   zcr_mean |-> 0, zcr_std |-> 0, rolloff_mean |-> 8, rolloff_std |-> 0]

Voice2 ==
  [pitch_mean |-> 0, pitch_std |-> 0, pitch_range |-> 0,
   spectral_centroid_mean |-> 16, spectral_centroid_std |-> 8,
   mfcc_mean |-> 8, mfcc_std |-> 0, energy_mean |-> 0, energy_std |-> 8,
   zcr_mean |-> 8, zcr_std |-> 8, rolloff_mean |-> 16, rolloff_std |-> 8]

\* what the speech-to-text engine makes of the recordings
SaidHi == <<"H","i","!">>
SaidBye == <<"b","y","e">>
SaidNothing == <<>>

(***************************************************************************)
(* The recordings a client may send.  scratch: whether the scratch file    *)
(* can be opened for writing; load: whether librosa.load decodes           *)
(* it; long: whether it lasts at least half a second; raises: the          *)
(* descriptor groups whose computation raises; vals: the descriptors the   *)
(* computations give; stt, said: whether transcription succeeds, and its   *)
(* text.                                                                   *)
(***************************************************************************)
Audio ==
  [bad   |-> [scratch |-> TRUE, load |-> FALSE, long |-> FALSE, raises |-> {}, vals |-> Voice1,
              stt |-> FALSE, said |-> SaidNothing],
   short |-> [scratch |-> TRUE, load |-> TRUE, long |-> FALSE, raises |-> {}, vals |-> Voice1,
              stt |-> TRUE, said |-> SaidNothing],
   nan   |-> [scratch |-> TRUE, load |-> TRUE, long |-> TRUE, raises |-> {"pitch", "centroid"},
              vals |-> Voice1, stt |-> TRUE, said |-> SaidHi],
   v1hi  |-> [scratch |-> TRUE, load |-> TRUE, long |-> TRUE, raises |-> {}, vals |-> Voice1,
              stt |-> TRUE, said |-> SaidHi],
   v1bye |-> [scratch |-> TRUE, load |-> TRUE, long |-> TRUE, raises |-> {}, vals |-> Voice1,
              stt |-> TRUE, said |-> SaidBye],
   v2hi  |-> [scratch |-> TRUE, load |-> TRUE, long |-> TRUE, raises |-> {}, vals |-> Voice2,
              stt |-> TRUE, said |-> SaidHi],
   nopitch    |-> [scratch |-> TRUE, load |-> TRUE, long |-> TRUE, raises |-> {"pitch"},
                   vals |-> Voice2, stt |-> TRUE, said |-> SaidHi],
   nocentroid |-> [scratch |-> TRUE, load |-> TRUE, long |-> TRUE, raises |-> {"centroid"},
                   vals |-> Voice2, stt |-> TRUE, said |-> SaidHi],
   nomfcc     |-> [scratch |-> TRUE, load |-> TRUE, long |-> TRUE, raises |-> {"mfcc"},
                   vals |-> Voice2, stt |-> TRUE, said |-> SaidHi],
   noenergy   |-> [scratch |-> TRUE, load |-> TRUE, long |-> TRUE, raises |-> {"energy"},
                   vals |-> Voice2, stt |-> TRUE, said |-> SaidHi],
   nozcr      |-> [scratch |-> TRUE, load |-> TRUE, long |-> TRUE, raises |-> {"zcr"},
                   vals |-> Voice2, stt |-> TRUE, said |-> SaidHi],
   norolloff  |-> [scratch |-> TRUE, load |-> TRUE, long |-> TRUE, raises |-> {"rolloff"},
                   vals |-> Voice2, stt |-> TRUE, said |-> SaidHi],
   nodisk     |-> [scratch |-> FALSE, load |-> TRUE, long |-> TRUE, raises |-> {},
                   vals |-> Voice2, stt |-> TRUE, said |-> SaidHi],
   v1mute     |-> [scratch |-> TRUE, load |-> TRUE, long |-> TRUE, raises |-> {},
                   vals |-> Voice1, stt |-> FALSE, said |-> SaidNothing]]

\* every recording of the model; a direct call of the extractor is given any of them
Recordings == DOMAIN Audio

\* the recordings the clients of the server send
AudioIds == {"bad", "short", "nan", "v1hi", "v1bye", "v2hi"}

\* a faulty extract_voice_features, for contrast: there is no outer try block
extract_voice_features_no_outer_try(a) ==
  IF ~Audio[a].scratch
  THEN [features |-> EmptyFeatures, leaked |-> 0, raised |-> TRUE]
  ELSE IF ~Audio[a].load
  THEN [features |-> EmptyFeatures, leaked |-> 0, raised |-> FALSE]
  ELSE IF ~Audio[a].long
  THEN [features |-> EmptyFeatures, leaked |-> 0, raised |-> FALSE]
  ELSE IF Audio[a].raises \cap UnguardedGroups # {}
       THEN [features |-> EmptyFeatures, leaked |-> 1, raised |-> TRUE]
       ELSE [features |->
               [k \in FeatureNames |->
                  IF k \in PitchNames /\ "pitch" \in Audio[a].raises
                  THEN 0 ELSE Audio[a].vals[k]],
             leaked |-> 0, raised |-> FALSE]

\* features: the mapping returned; leaked: the scratch files left behind; raised:
\* whether the call raises instead of returning
extract_voice_features(a) ==
  IF ~Audio[a].scratch
  THEN [features |-> FallbackFeatures, leaked |-> 0, raised |-> FALSE]
  ELSE IF ~Audio[a].load
  THEN [features |-> EmptyFeatures, leaked |-> 0, raised |-> FALSE]
  ELSE IF ~Audio[a].long
  THEN [features |-> EmptyFeatures, leaked |-> 0, raised |-> FALSE]
  ELSE IF Audio[a].raises \cap UnguardedGroups # {}
       THEN [features |-> FallbackFeatures, leaked |-> 1, raised |-> FALSE]
       ELSE [features |->
               [k \in FeatureNames |->
                  IF k \in PitchNames /\ "pitch" \in Audio[a].raises
                  THEN 0 ELSE Audio[a].vals[k]],
             leaked |-> 0, raised |-> FALSE]

(***************************************************************************)
(* Similarity engine: voice_auth.py calculate_similarity.                  *)
(***************************************************************************)
similarity_threshold == 50

\* the 1e-8 that a norm is compared with, in model units
norm_floor == 4

RECURSIVE SumOver(_, _, _)
SumOver(f, g, keys) ==
  IF keys = {} THEN 0
  ELSE LET k == CHOOSE x \in keys : TRUE
       IN f[k] * g[k] + SumOver(f, g, keys \ {k})

RECURSIVE Pow10(_)
Pow10(n) == IF n = 0 THEN 1 ELSE 10 * Pow10(n - 1)

\* the first n decimal digits of r / q, for 0 <= r < q
RECURSIVE DecimalDigits(_, _, _)
DecimalDigits(r, q, n) ==
  IF n = 0 THEN 0
  ELSE LET d == (10 * r) \div q
           e == (10 * r) % q
       IN d * Pow10(n - 1) + DecimalDigits(e, q, n - 1)

\* a faulty ClampedCosine, for contrast: a negative cosine is not raised to 0
SignedCosine(dot, sq1, sq2) ==
  IF dot = 0 THEN 0
  ELSE IF dot * dot >= sq1 * sq2 THEN (IF dot < 0 THEN -100 ELSE 100)
  ELSE LET t == DecimalDigits(dot * dot, sq1 * sq2, 4)
           s == CHOOSE s \in 0..99 : s * s <= t /\ (s + 1) * (s + 1) > t
       IN IF dot < 0 THEN -s ELSE s

\* the cosine dot / sqrt(sq1 * sq2), clamped to [0, 1], in hundredths rounded down
ClampedCosine(dot, sq1, sq2) ==
  IF dot <= 0 THEN 0
  ELSE IF dot * dot >= sq1 * sq2 THEN 100
  ELSE LET t == DecimalDigits(dot * dot, sq1 * sq2, 4)
       IN CHOOSE s \in 0..99 : s * s <= t /\ (s + 1) * (s + 1) > t

\* a faulty calculate_similarity, for contrast: the norms are not checked
calculate_similarity_no_floor(features1, features2) ==
  LET feature_names == DOMAIN features1 \cap DOMAIN features2
      dot == SumOver(features1, features2, feature_names)
      sq1 == SumOver(features1, features1, feature_names)
      sq2 == SumOver(features2, features2, feature_names)
  IN IF feature_names = {} THEN 0
     ELSE IF (\A k \in feature_names : features1[k] = 0)
             \/ (\A k \in feature_names : features2[k] = 0) THEN 0
     ELSE ClampedCosine(dot, sq1, sq2)

\* a faulty calculate_similarity, for contrast: the norms are compared with 1e-2
calculate_similarity_coarse_floor(features1, features2) ==
  LET feature_names == DOMAIN features1 \cap DOMAIN features2
      dot == SumOver(features1, features2, feature_names)
      sq1 == SumOver(features1, features1, feature_names)
      sq2 == SumOver(features2, features2, feature_names)
  IN IF feature_names = {} THEN 0
     ELSE IF (\A k \in feature_names : features1[k] = 0)
             \/ (\A k \in feature_names : features2[k] = 0) THEN 0
     ELSE IF sq1 < 1000 * norm_floor * norm_floor
             \/ sq2 < 1000 * norm_floor * norm_floor THEN 0
     ELSE ClampedCosine(dot, sq1, sq2)

\* a faulty calculate_similarity, for contrast: the norm of the first vector is
\* taken over all its keys
calculate_similarity_full_norm(features1, features2) ==
  LET feature_names == DOMAIN features1 \cap DOMAIN features2
      dot == SumOver(features1, features2, feature_names)
      sq1 == SumOver(features1, features1, DOMAIN features1)
      sq2 == SumOver(features2, features2, feature_names)
  IN IF feature_names = {} THEN 0
     ELSE IF (\A k \in feature_names : features1[k] = 0)
             \/ (\A k \in feature_names : features2[k] = 0) THEN 0
     ELSE IF sq1 < norm_floor * norm_floor \/ sq2 < norm_floor * norm_floor THEN 0
     ELSE ClampedCosine(dot, sq1, sq2)

calculate_similarity(features1, features2) ==
  LET feature_names == DOMAIN features1 \cap DOMAIN features2
      dot == SumOver(features1, features2, feature_names)
      sq1 == SumOver(features1, features1, feature_names)
      sq2 == SumOver(features2, features2, feature_names)
  IN IF feature_names = {} THEN 0
     ELSE IF (\A k \in feature_names : features1[k] = 0)
             \/ (\A k \in feature_names : features2[k] = 0) THEN 0
     ELSE IF sq1 < norm_floor * norm_floor \/ sq2 < norm_floor * norm_floor THEN 0
     ELSE ClampedCosine(dot, sq1, sq2)

(***************************************************************************)
(* State.                                                                  *)
(***************************************************************************)
Users == {"u1"}

\* the threads of the server, each serving one caller at a time
Workers == {"w1", "w2"}

\* the passphrases a caller may enroll with
Hi == <<"H","i">>
Bye == <<"b","y","e">>
Passphrases == {Hi, Bye}

\* the default of create_voice_profile's passphrase parameter
HelloEmora == <<"H","e","l","l","o"," ","E","m","o","r","a">>

\* the transcription a /voice/verify request starts with
CouldNotTranscribe ==
  <<"C","o","u","l","d"," ","n","o","t"," ","t","r","a","n","s","c","r","i","b","e">>

\* str(np.datetime64('now')) at second t of the clock; the empty string is <<>>
Clock(t) == <<t>>

VARIABLES
  files,    \* the profile directory: user id -> the file <user id>.json
  wk,       \* worker -> the call it is serving and that call's local variables
  resp,     \* worker -> what its last finished call returned
  session,  \* worker -> the user id in its caller's session, "" when none
  now,      \* the wall clock, in seconds: a second passes before each call arrives
  call,     \* the last direct call of a function of the program, and what it returned
  users     \* the file users.json: user id -> password hash, <<>> when it has no entry

vars == <<files, wk, resp, session, now, call, users>>

NoRec == [none |-> TRUE]

\* a file is absent, or holds nothing yet (opened for writing, not yet written),
\* or holds one complete record, or holds bytes that are no JSON document
AbsentFile == [kind |-> "absent", rec |-> NoRec]
EmptyFile == [kind |-> "empty", rec |-> NoRec]
CorruptFile == [kind |-> "corrupt", rec |-> NoRec]
FullFile(rec) == [kind |-> "full", rec |-> rec]

IdleWorker ==
  [op |-> "idle", pc |-> "idle", user |-> "", audio |-> "", passphrase |-> <<>>,
   loaded |-> NoRec, rec |-> NoRec, orphan |-> FALSE,
   is_authenticated |-> FALSE, confidence |-> 0]

NoResp ==
  [op |-> "none", user |-> "", audio |-> "", ok |-> FALSE, confidence |-> 0,
   error |-> FALSE, info |-> NoRec]

BoolResp(op, u, a, ok) ==
  [op |-> op, user |-> u, audio |-> a, ok |-> ok, confidence |-> 0,
   error |-> FALSE, info |-> NoRec]

\* no function has been called directly
NoCall == [fn |-> "none"]

Init ==
  /\ files = [u \in Users |-> AbsentFile]
  /\ wk = [w \in Workers |-> IdleWorker]
  /\ resp = [w \in Workers |-> NoResp]
  /\ session = [w \in Workers |-> ""]
  /\ now = 0
  /\ call = NoCall
  /\ users = [u \in Users |-> <<>>]

\* a call arrives at an idle worker
Arrives(w) ==
  /\ wk[w].pc = "idle"
  /\ now < MaxOps
  /\ now' = now + 1
  /\ call' = call
  /\ users' = users

(***************************************************************************)
(* The file system.                                                        *)
(***************************************************************************)
\* os.path.exists(profile_path)
Exists(u) == files[u].kind # "absent"

\* with open(profile_path, 'r') as f: json.load(f) succeeds
Loads(u) == files[u].kind = "full"

\* open(profile_path, 'w'): the file is created or truncated
OpenForWrite(u) == [files EXCEPT ![u] = EmptyFile]

\* What the file of a record may hold after json.dump and close wrote rec at offset 0
\* of it: rec alone when the file held nothing or the same bytes; when another writer
\* wrote since this one opened the file, rec alone or, if those bytes were longer
\* than rec's, rec followed by their tail.
Overwritten(file, rec) ==
  IF file.kind = "empty" \/ file = FullFile(rec)
  THEN {FullFile(rec)}
  ELSE {FullFile(rec), CorruptFile}

\* json.dump(profile, f) and the close of f by worker w. A file deleted while it was
\* open is written to the unlinked inode, which no path names.
Dumped(w) ==
  IF wk[w].orphan THEN {files}
  ELSE {[files EXCEPT ![wk[w].user] = o] : o \in Overwritten(files[wk[w].user], wk[w].rec)}

(***************************************************************************)
(* VoiceAuthenticator.create_voice_profile.                                *)
(***************************************************************************)
\* a faulty NewProfile, for contrast: the passphrase argument is ignored
NewProfileDefaultPhrase(user_id, passphrase, features, created_at) ==
  [user_id |-> user_id, passphrase |-> HelloEmora, features |-> features,
   created_at |-> created_at]

\* the profile dict create_voice_profile builds
NewProfile(user_id, passphrase, features, created_at) ==
  [user_id |-> user_id, passphrase |-> passphrase, features |-> features,
   created_at |-> created_at]

\* a faulty CreateOpen, for contrast: the file is opened before the features are checked
CreateOpenEarly(w, op, u, a, p, t) ==
  LET x == extract_voice_features(a)
  IN /\ files' = OpenForWrite(u)
     /\ IF x.features = EmptyFeatures
        THEN /\ wk' = [wk EXCEPT ![w] = IdleWorker]
             /\ resp' = [resp EXCEPT ![w] = BoolResp(op, u, a, FALSE)]
        ELSE /\ wk' = [wk EXCEPT ![w] =
                         [IdleWorker EXCEPT !.op = op, !.pc = "c_flush", !.user = u,
                                            !.audio = a, !.passphrase = p,
                                            !.rec = [user_id |-> u, passphrase |-> p,
                                                     features |-> x.features,
                                                     created_at |-> Clock(t)]]]
             /\ resp' = [resp EXCEPT ![w] = NoResp]

\* a faulty CreateOpen, for contrast: the features are not checked for emptiness
CreateOpenUnchecked(w, op, u, a, p, t) ==
  LET x == extract_voice_features(a)
  IN /\ files' = OpenForWrite(u)
     /\ wk' = [wk EXCEPT ![w] =
                 [IdleWorker EXCEPT !.op = op, !.pc = "c_flush", !.user = u,
                                    !.audio = a, !.passphrase = p,
                                    !.rec = [user_id |-> u, passphrase |-> p,
                                             features |-> x.features,
                                             created_at |-> Clock(t)]]]
     /\ resp' = [resp EXCEPT ![w] = NoResp]

\* create_voice_profile up to its open(profile_path, 'w'), run by worker w for the
\* call op at second t: extraction, the emptiness check, the profile dict, the open
CreateOpen(w, op, u, a, p, t) ==
  LET x == extract_voice_features(a)
  IN IF x.features = EmptyFeatures
        THEN /\ files' = files
             /\ wk' = [wk EXCEPT ![w] = IdleWorker]
             /\ resp' = [resp EXCEPT ![w] = BoolResp(op, u, a, FALSE)]
        ELSE /\ files' = OpenForWrite(u)
             /\ wk' = [wk EXCEPT ![w] =
                         [IdleWorker EXCEPT !.op = op, !.pc = "c_flush", !.user = u,
                                            !.audio = a, !.passphrase = p,
                                            !.rec = NewProfile(u, p, x.features, Clock(t))]]
             /\ resp' = [resp EXCEPT ![w] = NoResp]

\* json.dump and close, then return True
Flush(w) ==
  /\ files' \in Dumped(w)
  /\ resp' = [resp EXCEPT ![w] = BoolResp(wk[w].op, wk[w].user, wk[w].audio, TRUE)]
  /\ wk' = [wk EXCEPT ![w] = IdleWorker]
  /\ UNCHANGED <<session, now, call, users>>

\* POST /voice/enroll: create_voice_profile(user_id, audio_data, passphrase)
Enroll(w, u, a, p) ==
  /\ Arrives(w)
  /\ CreateOpen(w, "enroll", u, a, p, now')
  /\ UNCHANGED session

CreateFlush(w) ==
  /\ wk[w].pc = "c_flush"
  /\ Flush(w)

(***************************************************************************)
(* VoiceAuthenticator.update_voice_profile.                                *)
(***************************************************************************)
\* a faulty MergeFeatures, for contrast: the loop runs over the keys of the stored mapping only
MergeStoredKeys(old_features, new_features) ==
  [key \in DOMAIN old_features |->
     IF key \in DOMAIN new_features
     THEN (old_features[key] + new_features[key]) \div 2
     ELSE old_features[key]]

\* the loop over set(old_features.keys()) | set(new_features.keys())
MergeFeatures(old_features, new_features) ==
  [key \in DOMAIN old_features \cup DOMAIN new_features |->
     IF key \in DOMAIN old_features /\ key \in DOMAIN new_features
     THEN (old_features[key] + new_features[key]) \div 2
     ELSE IF key \in DOMAIN old_features THEN old_features[key]
     ELSE new_features[key]]

\* the means of the update are on the integer grid of the model
OnGrid(old_features, new_features) ==
  \A key \in DOMAIN old_features \cap DOMAIN new_features :
     (old_features[key] + new_features[key]) % 2 = 0

\* a faulty UpdatedProfile, for contrast: created_at is stamped again as well
UpdatedProfileRestamped(profile, updated_features, updated_at) ==
  [f \in DOMAIN profile \cup {"updated_at"} |->
     IF f = "features" THEN updated_features
     ELSE IF f \in {"updated_at", "created_at"} THEN updated_at
     ELSE profile[f]]

\* profile['features'] = updated_features; profile['updated_at'] = now
UpdatedProfile(profile, updated_features, updated_at) ==
  [f \in DOMAIN profile \cup {"updated_at"} |->
     IF f = "features" THEN updated_features
     ELSE IF f = "updated_at" THEN updated_at
     ELSE profile[f]]

\* a faulty Update, for contrast: a user id without a profile is refused
UpdateNoCreate(w, u, a) ==
  LET x == extract_voice_features(a)
  IN /\ Arrives(w)
     /\ IF x.features = EmptyFeatures \/ ~Exists(u)
        THEN /\ wk' = [wk EXCEPT ![w] = IdleWorker]
             /\ resp' = [resp EXCEPT ![w] = BoolResp("update", u, a, FALSE)]
        ELSE /\ wk' = [wk EXCEPT ![w] =
                         [IdleWorker EXCEPT !.op = "update", !.user = u, !.audio = a,
                                            !.pc = "u_load"]]
             /\ resp' = [resp EXCEPT ![w] = NoResp]
     /\ UNCHANGED <<files, session>>

\* a faulty Update, for contrast: the new features are not checked for emptiness
UpdateUnchecked(w, u, a) ==
  /\ Arrives(w)
  /\ wk' = [wk EXCEPT ![w] =
               [IdleWorker EXCEPT !.op = "update", !.user = u, !.audio = a,
                                  !.pc = IF Exists(u) THEN "u_load" ELSE "u_create"]]
  /\ resp' = [resp EXCEPT ![w] = NoResp]
  /\ UNCHANGED <<files, session>>

\* the call arrives: extraction, the emptiness check, os.path.exists
Update(w, u, a) ==
  LET x == extract_voice_features(a)
  IN /\ Arrives(w)
     /\ IF x.features = EmptyFeatures
        THEN /\ wk' = [wk EXCEPT ![w] = IdleWorker]
             /\ resp' = [resp EXCEPT ![w] = BoolResp("update", u, a, FALSE)]
        ELSE /\ wk' = [wk EXCEPT ![w] =
                         [IdleWorker EXCEPT !.op = "update", !.user = u, !.audio = a,
                                            !.pc = IF Exists(u) THEN "u_load"
                                                   ELSE "u_create"]]
             /\ resp' = [resp EXCEPT ![w] = NoResp]
     /\ UNCHANGED <<files, session>>

\* no profile: return self.create_voice_profile(user_id, audio_data)
UpdateCreate(w) ==
  /\ wk[w].pc = "u_create"
  /\ CreateOpen(w, "update", wk[w].user, wk[w].audio, HelloEmora, now)
  /\ UNCHANGED <<session, now, call, users>>

\* open(profile_path, 'r'), json.load, the merge; an exception returns False
UpdateLoad(w) ==
  LET u == wk[w].user
      new_features == extract_voice_features(wk[w].audio).features
  IN /\ wk[w].pc = "u_load"
     /\ IF Loads(u)
        THEN /\ OnGrid(files[u].rec.features, new_features)
             /\ wk' = [wk EXCEPT ![w].pc = "u_open",
                                 ![w].loaded = files[u].rec,
                                 ![w].rec = UpdatedProfile(files[u].rec,
                                              MergeFeatures(files[u].rec.features,
                                                            new_features),
                                              Clock(now))]
             /\ resp' = resp
        ELSE /\ wk' = [wk EXCEPT ![w] = IdleWorker]
             /\ resp' = [resp EXCEPT ![w] = BoolResp("update", u, wk[w].audio, FALSE)]
     /\ UNCHANGED <<files, session, now, call, users>>

\* open(profile_path, 'w')
UpdateOpen(w) ==
  /\ wk[w].pc = "u_open"
  /\ files' = OpenForWrite(wk[w].user)
  /\ wk' = [wk EXCEPT ![w].pc = "u_flush"]
  /\ UNCHANGED <<resp, session, now, call, users>>

UpdateFlush(w) ==
  /\ wk[w].pc = "u_flush"
  /\ Flush(w)

(***************************************************************************)
(* VoiceAuthenticator.delete_voice_profile.                                *)
(***************************************************************************)
\* the workers that hold the file of u open for writing
Writing(u) == {v \in Workers : wk[v].user = u /\ wk[v].pc \in {"c_flush", "u_flush"}}

\* a faulty Delete, for contrast: the file is emptied, not removed
DeleteTruncates(w, u) ==
  /\ Arrives(w)
  /\ IF Exists(u)
     THEN /\ files' = [files EXCEPT ![u] = EmptyFile]
          /\ wk' = [v \in Workers |->
                      IF v \in Writing(u) THEN [wk[v] EXCEPT !.orphan = TRUE] ELSE wk[v]]
          /\ resp' = [resp EXCEPT ![w] = BoolResp("delete", u, "", TRUE)]
     ELSE /\ UNCHANGED <<files, wk>>
          /\ resp' = [resp EXCEPT ![w] = BoolResp("delete", u, "", FALSE)]
  /\ UNCHANGED session

\* os.path.exists, os.remove
Delete(w, u) ==
  /\ Arrives(w)
  /\ IF Exists(u)
     THEN /\ files' = [files EXCEPT ![u] = AbsentFile]
          /\ wk' = [v \in Workers |->
                      IF v \in Writing(u) THEN [wk[v] EXCEPT !.orphan = TRUE] ELSE wk[v]]
          /\ resp' = [resp EXCEPT ![w] = BoolResp("delete", u, "", TRUE)]
     ELSE /\ UNCHANGED <<files, wk>>
          /\ resp' = [resp EXCEPT ![w] = BoolResp("delete", u, "", FALSE)]
  /\ UNCHANGED session

(***************************************************************************)
(* VoiceAuthenticator.verify_voice and get_profile_info.                   *)
(***************************************************************************)
\* a faulty verify_voice, for contrast: no existence check and no try block, so that opening
\* the missing file raises out of the call
verify_voice_unguarded(file, a) ==
  LET new_features == extract_voice_features(a).features
      similarity_score == calculate_similarity(file.rec.features, new_features)
  IN IF file.kind # "full"
     THEN [is_authenticated |-> FALSE, confidence |-> 0, raised |-> TRUE]
     ELSE IF new_features = EmptyFeatures
     THEN [is_authenticated |-> FALSE, confidence |-> 0, raised |-> FALSE]
     ELSE [is_authenticated |-> similarity_score >= similarity_threshold,
           confidence |-> similarity_score, raised |-> FALSE]

\* a faulty verify_voice, for contrast: a recording whose extraction gave the fallback
\* mapping is refused
verify_voice_refuses_fallback(file, a) ==
  LET new_features == extract_voice_features(a).features
      similarity_score == calculate_similarity(file.rec.features, new_features)
  IN IF file.kind # "full"
     THEN [is_authenticated |-> FALSE, confidence |-> 0, raised |-> FALSE]
     ELSE IF new_features = EmptyFeatures \/ new_features = FallbackFeatures
     THEN [is_authenticated |-> FALSE, confidence |-> 0, raised |-> FALSE]
     ELSE [is_authenticated |-> similarity_score >= similarity_threshold,
           confidence |-> similarity_score, raised |-> FALSE]

\* the tuple (is_authenticated, confidence_score) for the file as it is read, and
\* whether the call raises instead of returning; a file that cannot be opened or
\* parsed raises inside the try, and the except returns (False, 0.0)
verify_voice(file, a) ==
  LET new_features == extract_voice_features(a).features
      similarity_score == calculate_similarity(file.rec.features, new_features)
  IN IF file.kind = "absent"
     THEN [is_authenticated |-> FALSE, confidence |-> 0, raised |-> FALSE]
     ELSE IF file.kind # "full"
     THEN [is_authenticated |-> FALSE, confidence |-> 0, raised |-> FALSE]
     ELSE IF new_features = EmptyFeatures
     THEN [is_authenticated |-> FALSE, confidence |-> 0, raised |-> FALSE]
     ELSE [is_authenticated |-> similarity_score >= similarity_threshold,
           confidence |-> similarity_score, raised |-> FALSE]

\* a faulty get_profile_info, for contrast: the view carries the stored features
get_profile_info_raw(file) ==
  IF file.kind # "full" THEN NoRec
  ELSE [user_id |-> file.rec.user_id,
        passphrase |-> file.rec.passphrase,
        created_at |-> file.rec.created_at,
        updated_at |-> IF "updated_at" \in DOMAIN file.rec
                       THEN file.rec.updated_at ELSE <<>>,
        feature_count |-> Cardinality(DOMAIN file.rec.features),
        features |-> file.rec.features]

\* the dict get_profile_info returns, NoRec for None; profile.get('updated_at', '')
get_profile_info(file) ==
  IF file.kind # "full" THEN NoRec
  ELSE [user_id |-> file.rec.user_id,
        passphrase |-> file.rec.passphrase,
        created_at |-> file.rec.created_at,
        updated_at |-> IF "updated_at" \in DOMAIN file.rec
                       THEN file.rec.updated_at ELSE <<>>,
        feature_count |-> Cardinality(DOMAIN file.rec.features)]

(***************************************************************************)
(* POST /voice/verify, GET /voice/profile/<user_id>.                       *)
(***************************************************************************)
\* whisper_model.transcribe(temp_path)["text"], or the initial value when it raises
Transcription(a) == IF Audio[a].stt THEN Audio[a].said ELSE CouldNotTranscribe

\* expected_phrase of the handler
ExpectedPhrase(profile) == IF profile = NoRec THEN <<>> ELSE Strip(profile.passphrase)

\* phrase_match of the handler
PhraseMatch(profile, transcription) ==
  normalize_phrase(ExpectedPhrase(profile)) = normalize_phrase(Strip(transcription))

\* a faulty AuthResult, for contrast: the passphrase check is dropped
AuthResultVoiceOnly(is_authenticated, phrase_match) == is_authenticated

\* auth_result of the handler
AuthResult(is_authenticated, phrase_match) == is_authenticated /\ phrase_match

\* 'message' of the reply of /voice/verify
VerifyMessage(auth_result) ==
  IF auth_result THEN "Voice verified successfully"
  ELSE "Voice verification failed (voice or phrase did not match)"

\* status and body of the reply of GET /voice/profile/<user_id>
InfoReply(profile) ==
  IF profile # NoRec THEN [status |-> 200, body |-> profile]
  ELSE [status |-> 404, body |-> [error |-> "Voice profile not found"]]

\* the request arrives: voice_auth.verify_voice(user_id, audio_data); an exception
\* out of it is answered by the handler's except with status 500
Verify(w, u, a) ==
  LET r == verify_voice(files[u], a)
  IN /\ Arrives(w)
     /\ IF r.raised
        THEN /\ wk' = [wk EXCEPT ![w] = IdleWorker]
             /\ resp' = [resp EXCEPT ![w] =
                           [NoResp EXCEPT !.op = "verify", !.user = u, !.audio = a,
                                          !.error = TRUE]]
        ELSE /\ wk' = [wk EXCEPT ![w] =
                         [IdleWorker EXCEPT !.op = "verify", !.pc = "v_info",
                                            !.user = u, !.audio = a,
                                            !.is_authenticated = r.is_authenticated,
                                            !.confidence = r.confidence]]
             /\ resp' = [resp EXCEPT ![w] = NoResp]
     /\ UNCHANGED <<files, session>>

\* a faulty VerifyRespond, for contrast: a rejected request is answered confidence 0
VerifyRespondHidesConfidence(w) ==
  LET u == wk[w].user
      profile == get_profile_info(files[u])
      auth_result == AuthResult(wk[w].is_authenticated,
                                PhraseMatch(profile, Transcription(wk[w].audio)))
  IN /\ wk[w].pc = "v_info"
     /\ session' = IF auth_result THEN [session EXCEPT ![w] = u] ELSE session
     /\ resp' = [resp EXCEPT ![w] =
                   [NoResp EXCEPT !.op = "verify", !.user = u, !.audio = wk[w].audio,
                                  !.ok = auth_result,
                                  !.confidence = IF auth_result THEN wk[w].confidence
                                                 ELSE 0]]
     /\ wk' = [wk EXCEPT ![w] = IdleWorker]
     /\ UNCHANGED <<files, now, call, users>>

\* the transcription, get_profile_info, the passphrase check, the session and the reply
VerifyRespond(w) ==
  LET u == wk[w].user
      profile == get_profile_info(files[u])
      auth_result == AuthResult(wk[w].is_authenticated,
                                PhraseMatch(profile, Transcription(wk[w].audio)))
  IN /\ wk[w].pc = "v_info"
     /\ session' = IF auth_result THEN [session EXCEPT ![w] = u] ELSE session
     /\ resp' = [resp EXCEPT ![w] =
                   [NoResp EXCEPT !.op = "verify", !.user = u, !.audio = wk[w].audio,
                                  !.ok = auth_result,
                                  !.confidence = wk[w].confidence]]
     /\ wk' = [wk EXCEPT ![w] = IdleWorker]
     /\ UNCHANGED <<files, now, call, users>>

\* GET /voice/profile/<user_id>: get_profile_info, 404 for None
Info(w, u) ==
  LET profile == get_profile_info(files[u])
  IN /\ Arrives(w)
     /\ resp' = [resp EXCEPT ![w] =
                   [NoResp EXCEPT !.op = "info", !.user = u, !.ok = profile # NoRec,
                                  !.info = profile]]
     /\ UNCHANGED <<files, wk, session>>

\* the steps of the calls in progress
Continue(w) ==
  \/ CreateFlush(w)
  \/ UpdateCreate(w)
  \/ UpdateLoad(w)
  \/ UpdateOpen(w)
  \/ UpdateFlush(w)
  \/ VerifyRespond(w)

Next ==
  \/ \E w \in Workers, u \in Users, a \in AudioIds, p \in Passphrases : Enroll(w, u, a, p)
  \/ \E w \in Workers, u \in Users, a \in AudioIds : Update(w, u, a)
  \/ \E w \in Workers, u \in Users : Delete(w, u)
  \/ \E w \in Workers, u \in Users, a \in AudioIds : Verify(w, u, a)
  \/ \E w \in Workers, u \in Users : Info(w, u)
  \/ \E w \in Workers : Continue(w)

\* the threaded server: calls interleave at their steps
Spec == Init /\ [][Next]_vars

\* no call is in progress
Quiet == \A w \in Workers : wk[w].pc = "idle"

NextSerial ==
  \/ \E w \in Workers, u \in Users, a \in AudioIds, p \in Passphrases :
       Quiet /\ Enroll(w, u, a, p)
  \/ \E w \in Workers, u \in Users, a \in AudioIds : Quiet /\ Update(w, u, a)
  \/ \E w \in Workers, u \in Users : Quiet /\ Delete(w, u)
  \/ \E w \in Workers, u \in Users, a \in AudioIds : Quiet /\ Verify(w, u, a)
  \/ \E w \in Workers, u \in Users : Quiet /\ Info(w, u)
  \/ \E w \in Workers : Continue(w)

\* one call at a time: a call arrives only when no other is in progress
SpecSerial == Init /\ [][NextSerial]_vars

\* a descriptor that releases before this one stored and this one does not compute
LegacyNames == PitchNames \cup {"jitter"}

\* profiles in the directory when the server starts, written by an earlier release:
\* records whose feature mapping has another key set than the extractor's
LegacyProfiles ==
  {[user_id |-> u, passphrase |-> Hi, created_at |-> Clock(0),
    features |-> [key \in LegacyNames |-> val]] : u \in Users, val \in {8, -16}}

InitLegacy ==
  /\ \E rec \in LegacyProfiles : files = [u \in Users |-> FullFile(rec)]
  /\ wk = [w \in Workers |-> IdleWorker]
  /\ resp = [w \in Workers |-> NoResp]
  /\ session = [w \in Workers |-> ""]
  /\ now = 0
  /\ call = NoCall
  /\ users = [u \in Users |-> <<>>]

\* one call at a time over a directory that holds profiles of an earlier release
SpecLegacy == InitLegacy /\ [][NextSerial]_vars

\* the server starts over the directory of a server that was stopped between
\* open(profile_path, 'w') and the end of json.dump: the file is empty or cut short
InitCrashed ==
  /\ \E file \in {EmptyFile, CorruptFile} : files = [u \in Users |-> file]
  /\ wk = [w \in Workers |-> IdleWorker]
  /\ resp = [w \in Workers |-> NoResp]
  /\ session = [w \in Workers |-> ""]
  /\ now = 0
  /\ call = NoCall
  /\ users = [u \in Users |-> <<>>]

\* one call at a time over a directory that holds a record that cannot be read
SpecCrashed == InitCrashed /\ [][NextSerial]_vars

\* a passphrase a caller may enroll with: "Could not transcribe!"
PlaceholderPhrase == CouldNotTranscribe \o <<"!">>

\* one call at a time, as NextSerial; the callers also enroll with the text the
\* handler puts for a failed transcription, and send a recording that the
\* speech-to-text engine fails on
NextUntranscribed ==
  \/ NextSerial
  \/ \E w \in Workers, u \in Users, a \in {"v1hi", "v1mute"} :
       Quiet /\ Enroll(w, u, a, PlaceholderPhrase)
  \/ \E w \in Workers, u \in Users : Quiet /\ Verify(w, u, "v1mute")

SpecUntranscribed == Init /\ [][NextUntranscribed]_vars

\* one call at a time, as NextSerial; the callers also send recordings on which a
\* descriptor computation raises or whose scratch file cannot be written
NextDegraded ==
  \/ NextSerial
  \/ \E w \in Workers, u \in Users, a \in {"nomfcc", "nodisk"}, p \in Passphrases :
       Quiet /\ Enroll(w, u, a, p)
  \/ \E w \in Workers, u \in Users, a \in {"nozcr", "nodisk"} : Quiet /\ Verify(w, u, a)

SpecDegraded == Init /\ [][NextDegraded]_vars

(***************************************************************************)
(* Password accounts and the session: app.py register_user, login_user,    *)
(* logout.                                                                 *)
(***************************************************************************)
\* the passwords a caller may send; "" is a missing password
Passwords == {"pw", "guess", ""}

\* hashlib.sha256(password.encode()).hexdigest()
sha256(password) == <<"sha256", password>>

\* POST /auth/register: 400 without a password, 409 for a user id that has an
\* entry, otherwise the entry is written to users.json
Register(w, u, password) ==
  /\ wk[w].pc = "idle"
  /\ now < MaxOps
  /\ now' = now + 1
  /\ IF password = "" \/ users[u] # <<>>
     THEN /\ users' = users
          /\ resp' = [resp EXCEPT ![w] = BoolResp("register", u, "", FALSE)]
     ELSE /\ users' = [users EXCEPT ![u] = sha256(password)]
          /\ resp' = [resp EXCEPT ![w] = BoolResp("register", u, "", TRUE)]
  /\ UNCHANGED <<files, wk, session, call>>

\* a faulty Login, for contrast: the session is set before the password is compared
LoginSetsSessionFirst(w, u, password) ==
  /\ Arrives(w)
  /\ IF password = ""
     THEN /\ session' = session
          /\ resp' = [resp EXCEPT ![w] = BoolResp("login", u, "", FALSE)]
     ELSE /\ session' = [session EXCEPT ![w] = u]
          /\ resp' = [resp EXCEPT ![w] =
                        BoolResp("login", u, "", users[u] = sha256(password))]
  /\ UNCHANGED <<files, wk>>

\* POST /auth/login: 400 without a password, 401 when users.json has no entry for
\* the user id or the hashes differ, otherwise the session is set
Login(w, u, password) ==
  /\ Arrives(w)
  /\ IF password = "" \/ users[u] = <<>> \/ users[u] # sha256(password)
     THEN /\ session' = session
          /\ resp' = [resp EXCEPT ![w] = BoolResp("login", u, "", FALSE)]
     ELSE /\ session' = [session EXCEPT ![w] = u]
          /\ resp' = [resp EXCEPT ![w] = BoolResp("login", u, "", TRUE)]
  /\ UNCHANGED <<files, wk>>

\* GET /logout: session.clear()
Logout(w) ==
  /\ Arrives(w)
  /\ session' = [session EXCEPT ![w] = ""]
  /\ resp' = [resp EXCEPT ![w] = BoolResp("logout", "", "", TRUE)]
  /\ UNCHANGED <<files, wk>>

NextSession ==
  \/ Next
  \/ \E w \in Workers, u \in Users, password \in Passwords : Register(w, u, password)
  \/ \E w \in Workers, u \in Users, password \in Passwords : Login(w, u, password)
  \/ \E w \in Workers : Logout(w)

\* the threaded server with its password accounts
SpecSession == Init /\ [][NextSession]_vars

(***************************************************************************)
(* Direct calls of the pure functions.                                     *)
(***************************************************************************)
\* the feature names of the mappings compared directly
ComparedNames == {"pitch_mean", "mfcc_mean", "jitter"}

\* feature mappings over a few names: every key set, values that are negative,
\* zero, below the norm floor and above it; and the mappings of the recordings
Mappings ==
  UNION {[keys -> {-8, 0, 1, 8}] : keys \in SUBSET ComparedNames}
    \cup {Voice1, Voice2, FallbackFeatures}

\* pieces of phrases: words, contractions in pieces, case, punctuation, spaces
Tokens ==
  {<<"I">>, <<"'","m">>, <<"c","a">>, <<"w","o">>, <<"n","'","t">>, <<"'","s">>,
   <<"h","e">>, <<"s">>, <<"'","r","e">>, <<"y","o","u">>, <<"'","d">>, <<" ">>,
   <<"!">>, <<"7">>, <<"i","t">>, <<"w","e">>, <<"'","l","l">>, <<"'","v","e">>}

\* "I'm can't won't"
ImCantWont ==
  <<"I","'","m"," ","c","a","n","'","t"," ","w","o","n","'","t">>

\* the phrases of at most n tokens
RECURSIVE PhrasesUpTo(_)
PhrasesUpTo(n) ==
  IF n = 0 THEN {<<>>}
  ELSE LET shorter == PhrasesUpTo(n - 1)
       IN shorter \cup {x \o t : x \in shorter, t \in Tokens}

Phrases == PhrasesUpTo(MaxTokens) \cup {ImCantWont, Hi, Bye, HelloEmora}

\* extract_voice_features(audio_data) called on recording a
CallExtract(a) ==
  /\ call' = [fn |-> "extract_voice_features", audio |-> a,
              features |-> extract_voice_features(a).features,
              leaked |-> extract_voice_features(a).leaked,
              raised |-> extract_voice_features(a).raised]
  /\ UNCHANGED <<files, wk, resp, session, now, users>>

\* calculate_similarity(features1, features2)
CallSimilarity(features1, features2) ==
  /\ call' = [fn |-> "calculate_similarity", features1 |-> features1,
              features2 |-> features2,
              similarity |-> calculate_similarity(features1, features2)]
  /\ UNCHANGED <<files, wk, resp, session, now, users>>

\* normalize_phrase(phrase)
CallNormalize(phrase) ==
  /\ call' = [fn |-> "normalize_phrase", phrase |-> phrase,
              normalized |-> normalize_phrase(phrase)]
  /\ UNCHANGED <<files, wk, resp, session, now, users>>

\* one call, of any of the functions, on any input
NextPure ==
  \/ call = NoCall /\ \E a \in Recordings : CallExtract(a)
  \/ call = NoCall /\ \E features1, features2 \in Mappings :
                         CallSimilarity(features1, features2)
  \/ call = NoCall /\ \E phrase \in Phrases : CallNormalize(phrase)

\* one function called on its own, on any input
SpecPure == Init /\ [][NextPure]_vars

(***************************************************************************)
(* The claims.                                                             *)
(***************************************************************************)
\* C1: a /voice/verify request is accepted, and the session set to its user id, if
\* and only if the similarity of the stored features and the features of the new
\* recording is at least the threshold and the normalized stored passphrase equals
\* the normalized transcription; the stored features and passphrase are the ones
\* the request reads.
AcceptedIffVoiceAndPhrase ==
  [][\A w \in Workers :
       /\ \A u \in Users, a \in AudioIds :
            Verify(w, u, a) =>
              (wk'[w].is_authenticated <=>
                 /\ files[u].kind = "full"
                 /\ calculate_similarity(files[u].rec.features,
                                         extract_voice_features(a).features)
                      >= similarity_threshold)
       /\ VerifyRespond(w) =>
            LET u == wk[w].user
                stored == IF files[u].kind = "full" THEN files[u].rec.passphrase
                          ELSE <<>>
                phrase_ok == normalize_phrase(stored)
                               = normalize_phrase(Transcription(wk[w].audio))
            IN /\ resp'[w].ok <=> (wk[w].is_authenticated /\ phrase_ok)
               /\ resp'[w].ok => session'[w] = u
               /\ ~resp'[w].ok => session' = session
    ]_vars

\* C1 witness: one request accepted with its session set, another rejected for its
\* phrase although its voice matched
AcceptedAndPhraseRejected ==
  \E w, v \in Workers :
    /\ resp[w].op = "verify" /\ resp[w].ok /\ session[w] = resp[w].user
    /\ resp[v].op = "verify" /\ ~resp[v].ok
    /\ resp[v].confidence >= similarity_threshold

\* C2: verifying a user id that has no profile file returns (False, 0.0), and the
\* request is answered with authenticated false and confidence 0, not with an
\* exception or an error status.
UnknownUserIsRejectedQuietly ==
  [][\A w \in Workers :
       /\ \A u \in Users, a \in AudioIds :
            (Verify(w, u, a) /\ ~Exists(u)) =>
              /\ wk'[w].pc = "v_info"
              /\ ~wk'[w].is_authenticated
              /\ wk'[w].confidence = 0
              /\ ~resp'[w].error
       /\ (VerifyRespond(w) /\ ~wk[w].is_authenticated /\ wk[w].confidence = 0) =>
            /\ ~resp'[w].ok
            /\ resp'[w].confidence = 0
            /\ ~resp'[w].error
    ]_vars

\* C2 witness: the only call so far was a verification, of a user id without a
\* profile, and it was answered (false, 0)
UnknownUserVerified ==
  \E w \in Workers :
    /\ now = 1
    /\ resp[w].op = "verify" /\ ~resp[w].ok /\ resp[w].confidence = 0
    /\ ~resp[w].error
    /\ ~Exists(resp[w].user)

\* C3: an enrollment whose feature extraction gives the empty mapping returns False
\* and leaves every profile file as it was.
EmptyExtractionWritesNothing ==
  [][\A w \in Workers, u \in Users, a \in AudioIds, p \in Passphrases :
       (Enroll(w, u, a, p) /\ extract_voice_features(a).features = EmptyFeatures) =>
         /\ files' = files
         /\ wk'[w].pc = "idle"
         /\ resp'[w].op = "enroll" /\ ~resp'[w].ok
    ]_vars

\* C3 witness: an enrollment with an undecodable or too short recording has failed
\* and the profile enrolled before is still in its file
FailedEnrollmentKeptProfile ==
  \E w \in Workers :
    /\ resp[w].op = "enroll" /\ ~resp[w].ok
    /\ resp[w].audio \in {"bad", "short"}
    /\ files[resp[w].user].kind = "full"

\* C4: the one file of a user id holds at most one record, a record of that user
\* id; and an enrollment that writes its record with no other writer in between
\* leaves in the file exactly the record of this enrollment: its user id, its
\* passphrase, the features of its recording and its created_at, and no other
\* field.
EnrollmentReplacesRecord ==
  [][\A w \in Workers :
       /\ \A u \in Users, a \in AudioIds, p \in Passphrases :
            (Enroll(w, u, a, p) /\ wk'[w].pc = "c_flush") =>
              wk'[w].rec.created_at = Clock(now')
       /\ (CreateFlush(w) /\ wk[w].op = "enroll" /\ ~wk[w].orphan
             /\ files[wk[w].user] = EmptyFile) =>
            LET u == wk[w].user
                rec == files'[u].rec
            IN /\ files'[u].kind = "full"
               /\ DOMAIN rec = {"user_id", "passphrase", "features", "created_at"}
               /\ rec.user_id = u
               /\ rec.passphrase = wk[w].passphrase
               /\ rec.features = extract_voice_features(wk[w].audio).features
               /\ rec.created_at = wk[w].rec.created_at
       /\ \A u \in Users :
            files'[u].kind = "full" => files'[u].rec.user_id = u
    ]_vars

\* C4 witness: an enrollment and an update have both succeeded, and the file holds a
\* record that is an enrollment's: an enrolled passphrase and no updated_at
ReEnrolledOverProfile ==
  \E w, v \in Workers :
    /\ resp[w].op = "enroll" /\ resp[w].ok
    /\ resp[v].op = "update" /\ resp[v].ok
    /\ files[resp[w].user].kind = "full"
    /\ files[resp[w].user].rec.passphrase \in Passphrases
    /\ "updated_at" \notin DOMAIN files[resp[w].user].rec

\* C5: every complete record in the profile directory, and every record a call is
\* about to write, has a non-empty feature mapping.
StoredFeaturesNonEmpty ==
  /\ \A u \in Users :
       files[u].kind = "full" => DOMAIN files[u].rec.features # {}
  /\ \A w \in Workers :
       wk[w].rec # NoRec => DOMAIN wk[w].rec.features # {}

\* C5 witness: a record written by an update is in the store
UpdatedRecordStored ==
  \E u \in Users :
    /\ files[u].kind = "full"
    /\ "updated_at" \in DOMAIN files[u].rec

\* C6: a step of verify_voice or get_profile_info that reads the file of a user id
\* finds it absent or holding one complete record, never empty or partly written,
\* whatever create_voice_profile and update_voice_profile calls are in progress.
ReadersSeeCompleteRecords ==
  [][\A w \in Workers :
       /\ \A u \in Users :
            ((\E a \in AudioIds : Verify(w, u, a)) \/ Info(w, u)) =>
              files[u].kind \in {"absent", "full"}
       /\ VerifyRespond(w) => files[wk[w].user].kind \in {"absent", "full"}
    ]_vars

\* C6 witness: a verification is about to call get_profile_info while the file of
\* its user id is open for writing and still empty
ReaderMeetsOpenFile ==
  \E w \in Workers :
    /\ wk[w].pc = "v_info"
    /\ files[wk[w].user].kind = "empty"

\* the record in the file of u is an outcome of running the enrollment answered to
\* w and the update answered to v one after the other, in either order
SerialOutcome(w, v) ==
  LET u == resp[w].user
      rec == files[u].rec
      enrolled == extract_voice_features(resp[w].audio).features
      updating == extract_voice_features(resp[v].audio).features
  IN /\ files[u].kind = "full"
     /\ rec.user_id = u
     /\ rec.passphrase \in Passphrases
     /\ \/ rec.features = enrolled /\ "updated_at" \notin DOMAIN rec
        \/ rec.features = MergeFeatures(enrolled, updating) /\ "updated_at" \in DOMAIN rec

\* the two calls of the behaviour were an enrollment and an update of the same
\* user id, and both have returned True
EnrollAndUpdateDone(w, v) ==
  /\ now = 2
  /\ Quiet
  /\ resp[w].op = "enroll" /\ resp[w].ok
  /\ resp[v].op = "update" /\ resp[v].ok /\ resp[v].user = resp[w].user

\* C7: when one enrollment and one update of the same user id have run, the file
\* holds the record one of the two serial orders gives; and an update opens the file
\* for writing only while it still holds the record the update loaded.
ConcurrentWritesSerialize ==
  [][/\ \A w, v \in Workers : (EnrollAndUpdateDone(w, v) => SerialOutcome(w, v))'
     /\ \A w \in Workers :
          UpdateOpen(w) => files[wk[w].user] = FullFile(wk[w].loaded)
    ]_vars

\* C7 witness: an update has loaded a profile and is about to open the file for
\* writing, and the file by now holds another complete record
UpdateHoldsReplacedProfile ==
  \E w \in Workers :
    /\ wk[w].pc = "u_open"
    /\ files[wk[w].user].kind = "full"
    /\ files[wk[w].user].rec # wk[w].loaded

\* C8: a delete of a user id that has a file returns True and leaves the path as it
\* is for a user id never enrolled: no file, every verification of it giving
\* (False, 0.0) and get_profile_info giving None; a delete of a user id without a
\* file returns False and changes nothing; and a verification that arrives while
\* the file is gone returns (False, 0.0).
DeletedIsNeverEnrolled ==
  [][\A w \in Workers, u \in Users :
       /\ (Delete(w, u) /\ Exists(u)) =>
            /\ resp'[w].op = "delete" /\ resp'[w].ok
            /\ files'[u] = AbsentFile
            /\ \A a \in AudioIds :
                 verify_voice(files'[u], a)
                   = [is_authenticated |-> FALSE, confidence |-> 0, raised |-> FALSE]
            /\ get_profile_info(files'[u]) = NoRec
       /\ (Delete(w, u) /\ ~Exists(u)) =>
            /\ resp'[w].op = "delete" /\ ~resp'[w].ok
            /\ files' = files
       /\ \A a \in AudioIds :
            (files[u] = AbsentFile /\ Verify(w, u, a)) =>
              /\ ~wk'[w].is_authenticated
              /\ wk'[w].confidence = 0
    ]_vars

\* C8 witness: a profile was enrolled and deleted, and the verification that came
\* third, with a recording features can be extracted from, has read nothing
VerifiedAfterDelete ==
  \E w, v \in Workers :
    /\ now = 3
    /\ resp[w].op = "delete" /\ resp[w].ok
    /\ wk[v].pc = "v_info" /\ wk[v].user = resp[w].user
    /\ extract_voice_features(wk[v].audio).features # EmptyFeatures
    /\ ~wk[v].is_authenticated /\ wk[v].confidence = 0
    /\ ~Exists(wk[v].user)

\* C9: an update of a user id without a file does what create_voice_profile(user_id,
\* audio_data) does: with an empty extraction it returns False and writes nothing;
\* otherwise it opens the file and writes the record of the user id, the default
\* passphrase, the features of the recording and created_at, with no updated_at,
\* and returns True.
UpdateOfMissingIsCreate ==
  [][\A w \in Workers :
       /\ \A u \in Users, a \in AudioIds :
            (Update(w, u, a) /\ ~Exists(u)) =>
              /\ files' = files
              /\ IF extract_voice_features(a).features = EmptyFeatures
                 THEN wk'[w].pc = "idle" /\ resp'[w].op = "update" /\ ~resp'[w].ok
                 ELSE wk'[w].pc = "u_create" /\ wk'[w].user = u /\ wk'[w].audio = a
       /\ UpdateCreate(w) =>
            /\ files' = OpenForWrite(wk[w].user)
            /\ wk'[w].pc = "c_flush"
            /\ wk'[w].rec = [user_id |-> wk[w].user, passphrase |-> HelloEmora,
                             features |-> extract_voice_features(wk[w].audio).features,
                             created_at |-> Clock(now)]
       /\ (CreateFlush(w) /\ wk[w].op = "update" /\ ~wk[w].orphan
             /\ files[wk[w].user] = EmptyFile) =>
            /\ files' = [files EXCEPT ![wk[w].user] = FullFile(wk[w].rec)]
            /\ resp'[w].op = "update" /\ resp'[w].ok
    ]_vars

\* C9 witness: the only call so far was an update, it returned True, and the file
\* holds a record with the default passphrase and no updated_at
UpdateCreatedProfile ==
  \E w \in Workers :
    /\ now = 1
    /\ resp[w].op = "update" /\ resp[w].ok
    /\ files[resp[w].user].kind = "full"
    /\ files[resp[w].user].rec.passphrase = HelloEmora
    /\ "updated_at" \notin DOMAIN files[resp[w].user].rec

\* C10: an update that loads a profile computes, and with no other writer in between
\* stores, a feature mapping whose keys are the keys of the stored mapping and of the
\* new one together, whose value at a key of both is the mean of the two values, and
\* whose value at a key of one of them is that one's value.
UpdateStoresKeywiseMean ==
  [][\A w \in Workers :
       /\ (UpdateLoad(w) /\ Loads(wk[w].user)) =>
            LET old_features == files[wk[w].user].rec.features
                new_features == extract_voice_features(wk[w].audio).features
                updated_features == wk'[w].rec.features
            IN /\ DOMAIN updated_features = DOMAIN old_features \cup DOMAIN new_features
               /\ \A key \in DOMAIN updated_features :
                    IF key \in DOMAIN old_features /\ key \in DOMAIN new_features
                    THEN 2 * updated_features[key] = old_features[key] + new_features[key]
                    ELSE IF key \in DOMAIN old_features
                    THEN updated_features[key] = old_features[key]
                    ELSE updated_features[key] = new_features[key]
       /\ (UpdateFlush(w) /\ ~wk[w].orphan /\ files[wk[w].user] = EmptyFile) =>
            /\ files'[wk[w].user].kind = "full"
            /\ files'[wk[w].user].rec.features = wk[w].rec.features
    ]_vars

\* C10 witness: the file holds an updated record in which a key of the earlier
\* release alone, a key of the extractor alone and a key of both are present, the
\* last with a value that neither an earlier profile nor a recording has
UpdatedLegacyProfile ==
  \E u \in Users :
    /\ files[u].kind = "full"
    /\ "updated_at" \in DOMAIN files[u].rec
    /\ {"jitter", "mfcc_mean", "pitch_mean"} \subseteq DOMAIN files[u].rec.features
    /\ files[u].rec.features["pitch_mean"] \notin {8, -16, 0, 16}

\* C11: when extract_voice_features has returned, whatever the recording, the
\* scratch file the call wrote is gone.
ScratchFileRemoved ==
  call.fn = "extract_voice_features" => call.leaked = 0

\* C11 witness: a call of extract_voice_features has returned the fallback mapping
FallbackReturned ==
  /\ call.fn = "extract_voice_features"
  /\ call.features = FallbackFeatures

\* C12: what a caller is told about a user id it has not authenticated as is the
\* same whether or not the user id has a profile: a failed verification carries the
\* one generic message, and the reply to a profile request is the reply given for a
\* user id without a profile.
FailureCauseHidden ==
  [][\A w \in Workers :
       /\ (VerifyRespond(w) /\ ~resp'[w].ok) =>
            VerifyMessage(resp'[w].ok)
              = "Voice verification failed (voice or phrase did not match)"
       /\ \A u \in Users :
            (Info(w, u) /\ session[w] # u) =>
              InfoReply(resp'[w].info) = InfoReply(get_profile_info(AbsentFile))
    ]_vars

\* C12 witness: a caller with no session has been sent the profile of a user id
StrangerReadProfile ==
  \E w \in Workers :
    /\ session[w] = ""
    /\ resp[w].op = "info" /\ resp[w].ok
    /\ InfoReply(resp[w].info).status = 200

\* C13: a verification that finds a complete profile and extracts features from its
\* recording computes the similarity of the stored and the new features, and the
\* reply carries that value as its confidence whether the request is accepted or
\* rejected.
ConfidenceAlwaysReported ==
  [][\A w \in Workers :
       /\ \A u \in Users, a \in AudioIds :
            (/\ files[u].kind = "full"
             /\ extract_voice_features(a).features # EmptyFeatures
             /\ Verify(w, u, a)) =>
              wk'[w].confidence
                = calculate_similarity(files[u].rec.features,
                                       extract_voice_features(a).features)
       /\ VerifyRespond(w) =>
            /\ resp'[w].op = "verify"
            /\ resp'[w].confidence = wk[w].confidence
    ]_vars

\* C13 witness: a request of the enrolled voice saying another phrase was rejected
\* and answered with confidence 1.0
PhraseRejectedWithConfidence ==
  \E w \in Workers :
    /\ resp[w].op = "verify" /\ ~resp[w].ok
    /\ resp[w].confidence = 100
    /\ session[w] = ""

\* C14: a call that fails to read the record of a user id, because the file holds no
\* complete JSON document, ends in a hard failure: a verification is answered with
\* an error, not with the (False, 0.0) of a user id without a profile, a profile
\* request is answered with an error, not with the None of a user id without a
\* profile, and an update does not return the False of a failed extraction.
StorageFailurePropagates ==
  [][\A w \in Workers :
       /\ \A u \in Users :
            (files[u].kind \in {"empty", "corrupt"} /\ Info(w, u)) => resp'[w].error
       /\ \A u \in Users, a \in AudioIds :
            (files[u].kind \in {"empty", "corrupt"} /\ Verify(w, u, a)) =>
              resp'[w].error
       /\ (UpdateLoad(w) /\ files[wk[w].user].kind \in {"empty", "corrupt"}) =>
            resp'[w] # BoolResp("update", wk[w].user, wk[w].audio, FALSE)
    ]_vars

\* C14 witness: a verification of a user id whose file cannot be read has been
\* answered as a verification of a user id without a profile is
UnreadableAnsweredAsUnknown ==
  \E w \in Workers :
    /\ resp[w].op = "verify" /\ ~resp[w].ok /\ ~resp[w].error
    /\ resp[w].confidence = 0
    /\ files[resp[w].user].kind \in {"empty", "corrupt"}

\* the keys two mappings share
CommonKeys(f, g) == DOMAIN f \cap DOMAIN g

\* the vector of f over the keys it shares with g is all zero, or its norm is below
\* the floor
Negligible(f, g) ==
  \/ \A k \in CommonKeys(f, g) : f[k] = 0
  \/ SumOver(f, f, CommonKeys(f, g)) < norm_floor * norm_floor

\* C15: calculate_similarity returns 0.0 when the mappings share no key, or the
\* vector of either over the shared keys is all zero or has a norm below 1e-8.
DegenerateComparisonIsZero ==
  call.fn = "calculate_similarity" =>
    ((\/ CommonKeys(call.features1, call.features2) = {}
      \/ Negligible(call.features1, call.features2)
      \/ Negligible(call.features2, call.features1))
       => call.similarity = 0)

\* C15 witness: a comparison of two vectors that point the same way, one of them
\* not zero but shorter than the floor, has returned 0.0
TinyVectorCompared ==
  /\ call.fn = "calculate_similarity"
  /\ DOMAIN call.features1 = {"pitch_mean"}
  /\ DOMAIN call.features2 = {"pitch_mean"}
  /\ call.features1["pitch_mean"] = 1
  /\ call.features2["pitch_mean"] = 8
  /\ call.similarity = 0

\* C16 as stated: the similarity of any mapping with itself is 1.0.
SelfSimilarityIsOne ==
  (call.fn = "calculate_similarity" /\ call.features1 = call.features2)
    => call.similarity = 100

\* C16 as amended: the similarity of a mapping with itself is 1.0 when its vector
\* is not all zero and its norm is at least 1e-8 (so the mapping is not empty).
SelfSimilarityIsOneUnlessNegligible ==
  (/\ call.fn = "calculate_similarity"
   /\ call.features1 = call.features2
   /\ call.features1 # EmptyFeatures
   /\ ~Negligible(call.features1, call.features1))
    => call.similarity = 100

\* C16 witness: the features of a recording compared with themselves gave 1.0
RecordingComparedWithItself ==
  /\ call.fn = "calculate_similarity"
  /\ call.features1 = Voice1
  /\ call.features2 = Voice1
  /\ call.similarity = 100

\* C17: calculate_similarity gives the same value with its arguments exchanged.
SimilarityIsSymmetric ==
  call.fn = "calculate_similarity" =>
    call.similarity = calculate_similarity(call.features2, call.features1)

\* C17 witness: two mappings with different key sets, neither inside the other, have
\* been compared and are similar to some degree
DifferentKeySetsCompared ==
  /\ call.fn = "calculate_similarity"
  /\ DOMAIN call.features1 \ DOMAIN call.features2 # {}
  /\ DOMAIN call.features2 \ DOMAIN call.features1 # {}
  /\ \E k \in DOMAIN call.features1 \ DOMAIN call.features2 : call.features1[k] # 0
  /\ call.similarity > 0

\* C18: for two non-empty mappings calculate_similarity returns a value from 0.0 to
\* 1.0.
SimilarityInUnitInterval ==
  (/\ call.fn = "calculate_similarity"
   /\ call.features1 # EmptyFeatures
   /\ call.features2 # EmptyFeatures)
    => (call.similarity >= 0 /\ call.similarity <= 100)

\* C18 witness: two vectors above the floor that point in opposite directions have
\* been compared, and the result is 0.0
OppositeVectorsCompared ==
  /\ call.fn = "calculate_similarity"
  /\ ~Negligible(call.features1, call.features2)
  /\ ~Negligible(call.features2, call.features1)
  /\ SumOver(call.features1, call.features2,
             CommonKeys(call.features1, call.features2)) < 0
  /\ call.similarity = 0

\* C19: normalizing a normalized phrase changes nothing.
NormalizeIsIdempotent ==
  call.fn = "normalize_phrase" => normalize_phrase(call.normalized) = call.normalized

\* C19 witness: a phrase with punctuation, a capital and a contraction has been
\* normalized, to something else than itself
MessyPhraseNormalized ==
  /\ call.fn = "normalize_phrase"
  /\ call.phrase = <<"!", "I", "'","m">>
  /\ call.normalized = <<"i"," ","a","m">>

\* the table of the four-step procedure: the three irregular forms, then the suffix
\* rules
ProcedureTable ==
  << << <<"i","'","m">>,         <<"i"," ","a","m">> >>,
     << <<"c","a","n","'","t">>, <<"c","a","n","n","o","t">> >>,
     << <<"w","o","n","'","t">>, <<"w","i","l","l"," ","n","o","t">> >>,
     << <<"n","'","t">>,         <<" ","n","o","t">> >>,
     << <<"'","r","e">>,         <<" ","a","r","e">> >>,
     << <<"'","s">>,             <<" ","i","s">> >>,
     << <<"'","d">>,             <<" ","w","o","u","l","d">> >>,
     << <<"'","l","l">>,         <<" ","w","i","l","l">> >>,
     << <<"'","v","e">>,         <<" ","h","a","v","e">> >>,
     << <<"'","m">>,             <<" ","a","m">> >> >>

RECURSIVE ProcedureExpand(_, _)
ProcedureExpand(s, k) ==
  IF k > Len(ProcedureTable) THEN s
  ELSE ProcedureExpand(Replace(s, ProcedureTable[k][1], ProcedureTable[k][2]), k + 1)

\* the four steps: lower-case, expand in table order, keep lowercase letters, digits
\* and spaces, trim
Procedure(text) ==
  LET lowered == Lower(text)
      expanded == ProcedureExpand(lowered, 1)
      kept == SelectSeq(expanded, LAMBDA c : c \in KeptChars)
  IN Strip(kept)

\* C20: normalize_phrase gives what the four-step procedure gives, a result of
\* lowercase letters, digits and spaces with no space at either end; and
\* "I'm can't won't" becomes "i am cannot will not".
NormalizeFollowsProcedure ==
  call.fn = "normalize_phrase" =>
    /\ call.normalized = Procedure(call.phrase)
    /\ \A i \in 1..Len(call.normalized) : call.normalized[i] \in KeptChars
    /\ call.normalized # <<>> =>
         (call.normalized[1] # " " /\ call.normalized[Len(call.normalized)] # " ")
    /\ call.phrase = ImCantWont =>
         call.normalized = <<"i"," ","a","m"," ","c","a","n","n","o","t"," ",
                             "w","i","l","l"," ","n","o","t">>

\* C20 witness: "I'm can't won't" has been normalized
ImCantWontNormalized ==
  /\ call.fn = "normalize_phrase"
  /\ call.phrase = ImCantWont
  /\ Len(call.normalized) = 20

\* the record rec with the values of its features replaced by those of g
WithFeatures(rec, g) == [rec EXCEPT !.features = g]

\* C21: get_profile_info returns None for a user id without a profile file, and for
\* a user id with a profile exactly the fields user_id, passphrase, created_at,
\* updated_at and feature_count, the first four as stored (updated_at empty when
\* the record has none) and feature_count the number of keys of the stored
\* features; the result is the same whatever values the stored features have; and
\* the call leaves the store as it was.
InfoIsRedactedView ==
  [][\A w \in Workers, u \in Users :
       Info(w, u) =>
         /\ files' = files
         /\ files[u].kind = "absent" => resp'[w].info = NoRec
         /\ files[u].kind = "full" =>
              LET rec == files[u].rec
                  info == resp'[w].info
              IN /\ DOMAIN info = {"user_id", "passphrase", "created_at",
                                   "updated_at", "feature_count"}
                 /\ info.user_id = rec.user_id
                 /\ info.passphrase = rec.passphrase
                 /\ info.created_at = rec.created_at
                 /\ info.updated_at = IF "updated_at" \in DOMAIN rec
                                      THEN rec.updated_at ELSE <<>>
                 /\ info.feature_count = Cardinality(DOMAIN rec.features)
                 /\ \A val \in {0, 8} :
                      info = get_profile_info(
                               FullFile(WithFeatures(rec, [k \in DOMAIN rec.features |-> val])))
    ]_vars

\* C21 witness: a profile request was answered with the view of an updated record
\* of thirteen features
UpdatedProfileViewed ==
  \E w \in Workers :
    /\ resp[w].op = "info" /\ resp[w].ok
    /\ resp[w].info.feature_count = 13
    /\ resp[w].info.updated_at # <<>>
    /\ resp[w].info.created_at # resp[w].info.updated_at

\* C22: when the computation of one descriptor group raises during an extraction,
\* the features of that group are 0.0 in the mapping returned and the features
\* of every other group are the ones computed from the recording.
OneGroupDegradesAlone ==
  \A group \in DOMAIN GroupFeatures :
    (/\ call.fn = "extract_voice_features"
     /\ Audio[call.audio].load /\ Audio[call.audio].long
     /\ Audio[call.audio].raises = {group}) =>
      /\ DOMAIN call.features = FeatureNames
      /\ \A k \in FeatureNames :
           call.features[k] = IF k \in GroupFeatures[group] THEN 0
                              ELSE Audio[call.audio].vals[k]

\* C22 witness: an extraction in which only the MFCC computation raised has returned
\* other pitch features than the ones the pitch tracker computed
OtherGroupsLost ==
  /\ call.fn = "extract_voice_features"
  /\ Audio[call.audio].raises = {"mfcc"}
  /\ \E k \in PitchNames : call.features[k] # Audio[call.audio].vals[k]

\* the pipeline of the extraction of recording a fails on an error the code does
\* not expect: the scratch file cannot be written, or a descriptor group computed
\* outside any inner try block raises
UnexpectedError(a) ==
  \/ ~Audio[a].scratch
  \/ Audio[a].load /\ Audio[a].long /\ Audio[a].raises \cap UnguardedGroups # {}

\* the decode step of recording a fails entirely: neither librosa.load decodes it
DecodeFails(a) == Audio[a].scratch /\ ~Audio[a].load

\* the 13-key mapping of non-zero defaults
IsFallback(features) ==
  /\ features = FallbackFeatures
  /\ DOMAIN features = FeatureNames
  /\ Cardinality(DOMAIN features) = 13
  /\ \A k \in DOMAIN features : features[k] # 0

\* C23 as stated: extract_voice_features never raises, and on an unexpected error
\* anywhere in the pipeline, a decode step that fails entirely included, it
\* returns the 13-key fallback mapping of non-zero defaults.
AnyErrorGivesFallback ==
  call.fn = "extract_voice_features" =>
    /\ ~call.raised
    /\ (UnexpectedError(call.audio) \/ DecodeFails(call.audio))
         => IsFallback(call.features)

\* C23 as amended: extract_voice_features never raises; when the decode step fails
\* entirely it returns the empty mapping; on any other unexpected error in the
\* pipeline it returns the 13-key fallback mapping of non-zero defaults.
ErrorGivesFallbackDecodeGivesEmpty ==
  call.fn = "extract_voice_features" =>
    /\ ~call.raised
    /\ UnexpectedError(call.audio) => IsFallback(call.features)
    /\ DecodeFails(call.audio) => call.features = EmptyFeatures

\* C23 witness: an extraction whose scratch file could not be written has returned
\* the fallback mapping and left no scratch file
FallbackWithoutScratchFile ==
  /\ call.fn = "extract_voice_features"
  /\ ~Audio[call.audio].scratch
  /\ call.features = FallbackFeatures
  /\ call.leaked = 0

\* C24: an update of an existing profile builds, and with no other writer in between
\* stores, a record with the user_id, passphrase and created_at of the record it
\* loaded and with updated_at set to the time of the update; a record written by
\* create_voice_profile has no updated_at; and a record with an updated_at comes
\* into the store only by the write of an update.
UpdateKeepsIdentityAndStamps ==
  [][/\ \A w \in Workers :
          /\ (UpdateLoad(w) /\ Loads(wk[w].user)) =>
               LET stored == files[wk[w].user].rec
                   updated == wk'[w].rec
               IN /\ updated.user_id = stored.user_id
                  /\ updated.passphrase = stored.passphrase
                  /\ updated.created_at = stored.created_at
                  /\ updated.updated_at = Clock(now)
                  /\ DOMAIN updated = DOMAIN stored \cup {"updated_at"}
          /\ (UpdateFlush(w) /\ ~wk[w].orphan /\ files[wk[w].user] = EmptyFile) =>
               files'[wk[w].user] = FullFile(wk[w].rec)
          /\ (CreateFlush(w) /\ ~wk[w].orphan /\ files[wk[w].user] = EmptyFile) =>
               /\ files'[wk[w].user].kind = "full"
               /\ "updated_at" \notin DOMAIN files'[wk[w].user].rec
     /\ \A u \in Users :
          (/\ files'[u].kind = "full"
           /\ files'[u] # files[u]
           /\ "updated_at" \in DOMAIN files'[u].rec) =>
            \E w \in Workers : wk[w].pc = "u_flush" /\ wk[w].user = u /\ wk'[w].pc = "idle"
    ]_vars

\* C24 witness: a profile was enrolled, updated and enrolled again, and the record
\* in the store is the one of the second enrollment, with no updated_at
ReEnrolledAfterUpdate ==
  \E w, v \in Workers, u \in Users :
    /\ now = 3
    /\ resp[w].op = "enroll" /\ resp[w].ok /\ resp[w].user = u
    /\ resp[v].op = "update" /\ resp[v].ok /\ resp[v].user = u
    /\ files[u].kind = "full"
    /\ files[u].rec.created_at = Clock(3)
    /\ "updated_at" \notin DOMAIN files[u].rec

\* C25: a /voice/verify request is accepted only on one version of the profile: the
\* record whose passphrase the request matched is a record whose features the
\* recording passes the threshold against, whatever enrollment or deletion came
\* between the two reads of the request.
AcceptedOnOneVersion ==
  [][\A w \in Workers :
       (VerifyRespond(w) /\ resp'[w].ok) =>
         LET u == wk[w].user
         IN /\ files[u].kind = "full"
            /\ verify_voice(files[u], wk[w].audio).is_authenticated
    ]_vars

\* C25 witness: a request has passed the threshold against the features it read,
\* and is about to read the passphrase of a record enrolled since, which its
\* transcription matches and whose features its recording does not pass against
AcceptancePendingAcrossVersions ==
  \E w \in Workers :
    /\ wk[w].pc = "v_info"
    /\ wk[w].is_authenticated
    /\ files[wk[w].user].kind = "full"
    /\ PhraseMatch(get_profile_info(files[wk[w].user]), Transcription(wk[w].audio))
    /\ ~verify_voice(files[wk[w].user], wk[w].audio).is_authenticated

\* C26: the path of a deleted profile comes to hold a file again only by the
\* create_voice_profile of an enrollment, or of an update that found no file;
\* never by the write of an update that had loaded the record before the deletion.
DeletedStaysAbsent ==
  [][\A u \in Users :
       (files[u].kind = "absent" /\ files'[u].kind # "absent") =>
         \E w \in Workers :
           /\ wk[w].pc \in {"idle", "u_create"}
           /\ wk'[w].pc = "c_flush"
           /\ wk'[w].user = u
    ]_vars

\* C26 witness: of three calls, an enrollment, an update and a deletion that
\* returned True, the deletion arrived last, and the store holds the record the
\* update wrote
DeletedProfileRecreated ==
  \E w \in Workers, u \in Users :
    /\ now = 3
    /\ Quiet
    /\ resp[w].op = "delete" /\ resp[w].ok /\ resp[w].user = u
    /\ files[u].kind = "full"
    /\ files[u].rec.created_at = Clock(1)
    /\ "updated_at" \in DOMAIN files[u].rec
    /\ files[u].rec.updated_at = Clock(2)

\* C27: the session of a caller changes only in three ways: a login with the
\* password of the account sets it to that user id, a verification that passed the
\* threshold and matched the passphrase sets it to that user id, and a logout
\* clears it; a failed login and a failed verification leave every session as it
\* was.
SessionSetOnlyByAuthentication ==
  [][\A w \in Workers :
       /\ session'[w] # session[w] =>
            \/ /\ resp'[w].op = "login" /\ resp'[w].ok
               /\ session'[w] = resp'[w].user
               /\ \E password \in Passwords \ {""} :
                    users[session'[w]] = sha256(password) /\ Login(w, session'[w], password)
            \/ /\ VerifyRespond(w)
               /\ session'[w] = wk[w].user
               /\ wk[w].is_authenticated
               /\ wk[w].confidence >= similarity_threshold
               /\ PhraseMatch(get_profile_info(files[wk[w].user]),
                              Transcription(wk[w].audio))
            \/ /\ Logout(w)
               /\ session'[w] = ""
       /\ \A u \in Users, password \in Passwords :
            (Login(w, u, password) /\ ~resp'[w].ok) => session' = session
       /\ (VerifyRespond(w) /\ ~resp'[w].ok) => session' = session
    ]_vars

\* C27 witness: a caller logged in with the password is in the session of the user
\* id, and another caller's login with a wrong password has failed and left it
\* without a session
LoggedInAndRefused ==
  \E w, v \in Workers :
    /\ resp[w].op = "login" /\ resp[w].ok /\ session[w] = resp[w].user
    /\ resp[v].op = "login" /\ ~resp[v].ok /\ session[v] = ""
    /\ users[resp[v].user] # <<>>

\* C28: a /voice/verify request whose transcription failed, so that its transcript
\* is the text the handler starts with, is not accepted, whatever the stored
\* passphrase.
UntranscribedIsRejected ==
  [][\A w \in Workers :
       (VerifyRespond(w) /\ ~Audio[wk[w].audio].stt) =>
         /\ ~resp'[w].ok
         /\ session' = session
    ]_vars

\* C28 witness: a request whose recording could not be transcribed was accepted and
\* its session set
UntranscribedAccepted ==
  \E w \in Workers :
    /\ resp[w].op = "verify" /\ resp[w].ok
    /\ ~Audio[resp[w].audio].stt
    /\ Transcription(resp[w].audio) = CouldNotTranscribe
    /\ session[w] = resp[w].user

\* C29: an update whose feature extraction gives the empty mapping returns False
\* and leaves every profile file as it was: a profile of the user id keeps its
\* record, and a user id without a profile gets none.
EmptyExtractionUpdatesNothing ==
  [][\A w \in Workers, u \in Users, a \in AudioIds :
       (Update(w, u, a) /\ extract_voice_features(a).features = EmptyFeatures) =>
         /\ files' = files
         /\ wk'[w].pc = "idle"
         /\ resp'[w] = BoolResp("update", u, a, FALSE)
    ]_vars

\* C29 witness: an update with an undecodable or too short recording has failed,
\* and the profile enrolled before is in its file as enrolled, with no updated_at
FailedUpdateKeptProfile ==
  \E w \in Workers :
    /\ Quiet
    /\ resp[w].op = "update" /\ ~resp[w].ok
    /\ resp[w].audio \in {"bad", "short"}
    /\ files[resp[w].user].kind = "full"
    /\ "updated_at" \notin DOMAIN files[resp[w].user].rec

\* C30: an enrollment whose extraction ends in the fallback branch stores the
\* fallback mapping, and a verification whose extraction ends in the fallback
\* branch, against a profile that holds the fallback mapping, returns (True, 1.0),
\* whatever the two recordings contain.
FallbackVerifiesFallback ==
  [][\A w \in Workers, u \in Users, a \in Recordings :
       /\ \A p \in Passphrases :
            (UnexpectedError(a) /\ Enroll(w, u, a, p)) =>
              /\ wk'[w].pc = "c_flush"
              /\ wk'[w].rec.features = FallbackFeatures
       /\ (/\ UnexpectedError(a)
           /\ files[u].kind = "full"
           /\ files[u].rec.features = FallbackFeatures
           /\ Verify(w, u, a)) =>
            /\ wk'[w].is_authenticated
            /\ wk'[w].confidence = 100
    ]_vars

\* C30 witness: a profile was enrolled from one speaker's recording and is being
\* verified with another speaker's, the extraction failed on an unexpected error
\* both times, and verify_voice has returned (True, 1.0)
StrangerPassedOnFallback ==
  \E w, v \in Workers :
    /\ resp[w].op = "enroll" /\ resp[w].ok
    /\ UnexpectedError(resp[w].audio)
    /\ wk[v].pc = "v_info" /\ wk[v].user = resp[w].user
    /\ UnexpectedError(wk[v].audio)
    /\ Audio[wk[v].audio].vals # Audio[resp[w].audio].vals
    /\ wk[v].is_authenticated /\ wk[v].confidence = 100

====
